---- MODULE Spec2Model ----
(***************************************************************************)
(* Model of grade_school_math/translate.py: the asyncio batch translator.  *)
(*                                                                         *)
(* main() builds one Semaphore and one translate_json_object coroutine per *)
(* selected record; translate_json_object fans out one coroutine per       *)
(* string or container child, gathers them, and writes the results back    *)
(* into the container in place; translate() guards one llm.ainvoke call    *)
(* with the semaphore.                                                     *)
(*                                                                         *)
(* A coroutine is named by its path: <<>> is main, <<i>> the coroutine of  *)
(* record i, <<i, j, ...>> the coroutine of the child at position j.       *)
(* One action is one run of a coroutine between two suspension points.     *)
(***************************************************************************)
EXTENDS Integers, Sequences, FiniteSets, TLC

(***************************************************************************)
(* Bounds of the model.                                                    *)
(***************************************************************************)
MaxRecords == 2
MaxPermits == 2
MaxCoroutines == 6

(***************************************************************************)
(* JSON values, as json.loads builds them.  Every value is tagged with its *)
(* Python type; a dict keeps its entries in insertion order.               *)
(***************************************************************************)
Str(s) == [k |-> "str", v |-> s]
Scalar(s) == [k |-> "scalar", v |-> s]
List(items) == [k |-> "list", v |-> items]
Dict(entries) == [k |-> "dict", v |-> entries]
Entry(key, value) == [key |-> key, val |-> value]

IsStr(value) == value.k = "str"
IsContainer(value) == value.k \in {"dict", "list"}

Size(obj) == IF IsContainer(obj) THEN Len(obj.v) ELSE 0
Child(obj, j) == IF obj.k = "dict" THEN obj.v[j].val ELSE obj.v[j]
SetChild(obj, j, x) ==
    IF obj.k = "dict"
    THEN [obj EXCEPT !.v[j].val = x]
    ELSE [obj EXCEPT !.v[j] = x]

RECURSIVE AtValue(_, _)
AtValue(value, p) ==
    IF p = <<>> THEN value ELSE AtValue(Child(value, Head(p)), Tail(p))

RECURSIVE PutValue(_, _, _)
PutValue(value, p, x) ==
    IF p = <<>> THEN x
    ELSE SetChild(value, Head(p), PutValue(Child(value, Head(p)), Tail(p), x))

At(objects, p) == AtValue(objects[Head(p)], Tail(p))

PutNothing(objects, p, x) == objects

Put(objects, p, x) ==
    [objects EXCEPT ![Head(p)] = PutValue(objects[Head(p)], Tail(p), x)]

(***************************************************************************)
(* The records the batches are drawn from.                                 *)
(***************************************************************************)
Catalog ==
    << Str("a"),
       Scalar("7"),
       Dict(<<>>),
       List(<<>>),
       Dict(<<Entry("n", Scalar("7")), Entry("z", Scalar("null"))>>),
       List(<<Str("b")>>),
       List(<<Scalar("7"), Str("a"), Str("b")>>),
       Dict(<<Entry("n", Scalar("true")), Entry("q", Str("a")),
              Entry("l", List(<<Str("b")>>))>>) >>

\* Number of coroutines a value gives rise to below its own, and the number
\* a batch gives rise to below main when every record is selected.
RECURSIVE Work(_)
RECURSIVE WorkFrom(_, _)
Work(value) == IF IsContainer(value) THEN WorkFrom(value, 1) ELSE 0
WorkFrom(obj, j) ==
    IF j > Size(obj) THEN 0
    ELSE (IF IsStr(Child(obj, j)) THEN 1
          ELSE IF IsContainer(Child(obj, j)) THEN 1 + Work(Child(obj, j))
          ELSE 0) + WorkFrom(obj, j + 1)

RECURSIVE TotalWork(_, _)
TotalWork(objects, i) ==
    IF i > Len(objects) THEN 0
    ELSE 1 + Work(objects[i]) + TotalWork(objects, i + 1)

Batches ==
    { b \in UNION { [1..n -> 1..Len(Catalog)] : n \in 0..MaxRecords } :
        TotalWork([i \in DOMAIN b |-> Catalog[b[i]]], 1) <= MaxCoroutines }

\* -1 is "no limit"; the other values are below, within and beyond the batch.
\* MaxRecords is the limit beyond the batch: it goes with the shorter batches
\* only (on a batch of MaxRecords records it is -1 over again).
Limits == (0 - 2)..MaxRecords

(***************************************************************************)
(* The Translation Port: llm.ainvoke stubbed as upper-casing, and the      *)
(* message object it answers with.                                         *)
(***************************************************************************)
Port(text) ==
    CASE text = "a" -> "A"
      [] text = "b" -> "B"
      [] OTHER -> text

Msg(content) == [k |-> "msg", v |-> content]
Ref(p) == [k |-> "ref", v |-> p]

VARIABLES
    json_objects,   \* the loaded records; containers are mutated in place
    original,       \* the records as loaded (never written)
    tasks_number,   \* the size the semaphore was built with
    limit,          \* the lines limit
    semaphore,      \* the semaphore: [value, waiters], its counter and the
                    \* queue of the futures of the coroutines waiting in acquire
    coro,           \* path -> [fn, text, st]: every coroutine created so far
    tasks,          \* path -> the list of coroutines its gather awaits
    ret,            \* path -> the value the coroutine returned
    translations,   \* what main returned
    calls,          \* path -> the llm.ainvoke calls made by that coroutine
    acquired,       \* the paths that acquired the semaphore
    finished,       \* parent path -> its children in completion order
    cancelling      \* asyncio.run has asked every pending task to cancel

vars == << json_objects, original, tasks_number, limit, semaphore, coro, tasks,
           ret, translations, calls, acquired, finished, cancelling >>

Main == <<>>

Init ==
    /\ \E b \in Batches : json_objects = [i \in DOMAIN b |-> Catalog[b[i]]]
    /\ original = json_objects
    /\ tasks_number \in 1..MaxPermits
    /\ limit \in Limits
    /\ limit = MaxRecords => Len(json_objects) < MaxRecords
    /\ semaphore = [value |-> tasks_number, waiters |-> << >>]
    /\ coro = (Main :> [fn |-> "main", text |-> "", st |-> "created"])
    /\ tasks = << >>
    /\ ret = << >>
    /\ translations = << >>
    /\ calls = << >>
    /\ acquired = {}
    /\ finished = << >>
    /\ cancelling = FALSE

(***************************************************************************)
(* Helpers on coroutines.                                                  *)
(***************************************************************************)
Range(f) == { f[x] : x \in DOMAIN f }
Parent(p) == SubSeq(p, 1, Len(p) - 1)
Settled == {"done", "raised", "cancelled"}

Coroutine(fn, text) == [fn |-> fn, text |-> text, st |-> "created"]
Exc == [k |-> "exc", v |-> << >>]

\* What a name bound to a returned value denotes: the object itself.
Deref(objects, r) == IF r.k = "ref" THEN At(objects, r.v) ELSE r

(***************************************************************************)
(* main, lines 84-88: the number of records to translate.                  *)
(***************************************************************************)
Min(a, b) == IF a <= b THEN a ELSE b

effective_all(lim, n) == n

effective_limit(lim, n) == IF lim = 0 - 1 THEN n ELSE Min(lim, n)

(***************************************************************************)
(* asyncio.Semaphore as `async with semaphore` uses it: the counter _value *)
(* and the FIFO queue _waiters of the futures of the coroutines suspended  *)
(* in acquire().  A waiter's future is done once a release has woken it;   *)
(* the permit is taken from the counter at that moment, on its behalf.     *)
(***************************************************************************)
Waiter(p) == [path |-> p, fut |-> "pending"]

Pending(s) == { n \in DOMAIN s.waiters : s.waiters[n].fut = "pending" }
Woken(s) == { s.waiters[n].path : n \in { m \in DOMAIN s.waiters :
                                            s.waiters[m].fut = "done" } }

lockedNever(s) == FALSE

lockedBelowTwo(s) == s.value <= 1

\* locked(): no permit left, or somebody who was not cancelled is queued.
locked(s) ==
    s.value = 0 \/ \E n \in DOMAIN s.waiters : s.waiters[n].fut # "cancelled"

\* _wake_up_next(): the first waiter that is not done gets the permit.
wake_up_next(s) ==
    IF Pending(s) = {} THEN s
    ELSE LET n == CHOOSE m \in Pending(s) : \A o \in Pending(s) : m <= o IN
           [value |-> s.value - 1,
            waiters |-> [s.waiters EXCEPT ![n].fut = "done"]]

release(s) == wake_up_next([s EXCEPT !.value = @ + 1])

ExitOnSuccess(s, ok) == IF ok THEN release(s) ELSE s

\* __aexit__ releases whether or not the body raised.
Exit(s, ok) == release(s)

\* acquire(), not locked: the permit is taken at once.
acquire(s) == [s EXCEPT !.value = @ - 1]

\* acquire(), locked: the coroutine queues a future and suspends on it.
enqueue(s, p) == [s EXCEPT !.waiters = Append(@, Waiter(p))]

\* self._waiters.remove(fut)
remove(s, p) ==
    LET n == CHOOSE m \in DOMAIN s.waiters : s.waiters[m].path = p IN
      [s EXCEPT !.waiters =
         [m \in 1..(Len(s.waiters) - 1) |->
            IF m < n THEN s.waiters[m] ELSE s.waiters[m + 1]]]

\* acquire() after `await fut`: the future leaves the queue, and a permit
\* that is free at that moment goes to the next waiter.
resume(s, p) ==
    LET left == remove(s, p) IN
      IF left.value > 0 THEN wake_up_next(left) ELSE left

\* acquire() cancelled in `await fut`: the future leaves the queue; a waiter
\* that had been woken gives its permit back.
abandon(s, p) ==
    LET n == CHOOSE m \in DOMAIN s.waiters : s.waiters[m].path = p
        left == remove(s, p) IN
      IF s.waiters[n].fut # "cancelled"
      THEN wake_up_next([left EXCEPT !.value = @ + 1])
      ELSE left

\* task.cancel() on every pending task: the future of a waiter that was not
\* woken is cancelled; a future that is done stays done.
cancel_futures(s) ==
    [s EXCEPT !.waiters =
       [n \in DOMAIN s.waiters |->
          IF s.waiters[n].fut = "pending"
          THEN [s.waiters[n] EXCEPT !.fut = "cancelled"]
          ELSE s.waiters[n]]]

(***************************************************************************)
(* translate_json_object, first pass (lines 43-50 and 61-66): one          *)
(* coroutine per str or dict/list child, in iteration order.               *)
(***************************************************************************)
isinstance_any_scalar(value) == ~IsContainer(value)

isinstance_str(value) == IsStr(value)

isinstance_not_str(value) == ~IsStr(value)

isinstance_dict_list(value) == IsContainer(value)

RECURSIVE FirstPassReversed(_, _, _)
FirstPassReversed(obj, p, j) ==
    IF j > Size(obj) THEN << >>
    ELSE LET value == Child(obj, j) IN
         FirstPassReversed(obj, p, j + 1)
         \o (IF isinstance_str(value)
             THEN << [path |-> Append(p, j), co |-> Coroutine("translate", value.v)] >>
             ELSE IF isinstance_dict_list(value)
             THEN << [path |-> Append(p, j),
                      co |-> Coroutine("translate_json_object", "")] >>
             ELSE << >>)

RECURSIVE FirstPass(_, _, _)
FirstPass(obj, p, j) ==
    IF j > Size(obj) THEN << >>
    ELSE LET value == Child(obj, j) IN
         (IF isinstance_str(value)
          THEN << [path |-> Append(p, j), co |-> Coroutine("translate", value.v)] >>
          ELSE IF isinstance_dict_list(value)
          THEN << [path |-> Append(p, j),
                   co |-> Coroutine("translate_json_object", "")] >>
          ELSE << >>)
         \o FirstPass(obj, p, j + 1)

(***************************************************************************)
(* asyncio.gather over the tasks list: the results in the order of the tasks list.     *)
(***************************************************************************)
GatherByCompletion(p) == [j \in 1..Len(finished[p]) |-> ret[finished[p][j]]]

GatherResults(p) == [j \in 1..Len(tasks[p]) |-> ret[tasks[p][j]]]

GatheredSettled(p) == \A c \in Range(tasks[p]) : coro[c].st \in {"done", "raised"}

Gathered(p) == \A c \in Range(tasks[p]) : coro[c].st = "done"
GatherRaised(p) == \E c \in Range(tasks[p]) : coro[c].st = "raised"

ResultsSettled == \A c \in Range(tasks[Main]) : coro[c].st \in {"done", "raised"}

ResultsReady == Gathered(Main)

(***************************************************************************)
(* translate_json_object, second pass (lines 52-59 and 68-75): re-scan the *)
(* container and store results[result_index] at each str or dict/list      *)
(* position.                                                               *)
(***************************************************************************)
ContentForgotten(msg) == msg

\* results[result_index].content
Content(msg) == Str(msg.v)

RECURSIVE SecondPass(_, _, _, _, _)
SecondPass(objects, obj, results, j, result_index) ==
    IF j > Size(obj) THEN obj
    ELSE LET value == Child(obj, j) IN
         IF isinstance_str(value)
         THEN SecondPass(objects,
                         SetChild(obj, j, Content(results[result_index])),
                         results, j + 1, result_index + 1)
         ELSE IF isinstance_dict_list(value)
         THEN SecondPass(objects,
                         SetChild(obj, j, Deref(objects, results[result_index])),
                         results, j + 1, result_index + 1)
         ELSE SecondPass(objects, obj, results, j + 1, result_index)

(***************************************************************************)
(* translate_json_object as a function of its argument: what one call      *)
(* returns once every llm.ainvoke below it has answered.                   *)
(***************************************************************************)
RECURSIVE translate_json_object(_)
translate_json_object(obj) ==
    IF ~isinstance_dict_list(obj) THEN obj
    ELSE LET new == FirstPass(obj, << >>, 1)
             results == [j \in DOMAIN new |->
                           IF new[j].co.fn = "translate"
                           THEN Msg(Port(new[j].co.text))
                           ELSE translate_json_object(AtValue(obj, new[j].path))]
         IN SecondPass(<< >>, obj, results, 1, 1)

(***************************************************************************)
(* Bookkeeping shared by the actions.                                      *)
(***************************************************************************)
Spawn(p, new) ==
    /\ tasks' = tasks @@ (p :> [j \in DOMAIN new |-> new[j].path])
    /\ coro' = [coro EXCEPT ![p].st = "gathering"]
                 @@ [c \in { new[j].path : j \in DOMAIN new } |->
                       (CHOOSE d \in Range(new) : d.path = c).co]
    /\ finished' = finished @@ (p :> << >>)

Complete(p) == finished' = [finished EXCEPT ![Parent(p)] = Append(@, p)]

(***************************************************************************)
(* main, lines 80-96: build one coroutine per selected record and gather.  *)
(***************************************************************************)
\* With no record selected gather has nothing to wait for: the await does not
\* suspend and main returns the empty list in the same step.
MainStart ==
    /\ coro[Main].st = "created"
    /\ LET n == effective_limit(limit, Len(json_objects)) IN
         IF n <= 0
         THEN /\ tasks' = tasks @@ (Main :> << >>)
              /\ finished' = finished @@ (Main :> << >>)
              /\ coro' = [coro EXCEPT ![Main].st = "done"]
         ELSE Spawn(Main, [i \in 1..n |->
                             [path |-> << i >>,
                              co |-> Coroutine("translate_json_object", "")]])
    /\ UNCHANGED << json_objects, original, tasks_number, limit, semaphore, ret,
                    translations, calls, acquired >>
    /\ UNCHANGED cancelling

\* main, lines 96-97: every record's coroutine returned.
MainReturn ==
    /\ coro[Main].st = "gathering"
    /\ ResultsReady
    /\ translations' = [j \in DOMAIN tasks[Main] |->
                          Deref(json_objects, GatherResults(Main)[j])]
    /\ coro' = [coro EXCEPT ![Main].st = "done"]
    /\ UNCHANGED << json_objects, original, tasks_number, limit, semaphore, tasks,
                    ret, calls, acquired, finished >>
    /\ UNCHANGED cancelling

\* main, line 96: gather raises the first exception of a record; the other
\* coroutines are not stopped by it.
MainRaise ==
    /\ coro[Main].st = "gathering"
    /\ GatherRaised(Main)
    /\ coro' = [coro EXCEPT ![Main].st = "raised"]
    /\ UNCHANGED << json_objects, original, tasks_number, limit, semaphore, tasks,
                    ret, translations, calls, acquired, finished >>
    /\ UNCHANGED cancelling

\* Line 185: once main has raised, asyncio.run stops the loop and calls
\* cancel() on every task that is still pending; what was ready before that
\* has run.  Each task then unwinds in a step of its own.
CancelAllTasks ==
    /\ coro[Main].st = "raised"
    /\ ~cancelling
    /\ \E c \in DOMAIN coro : coro[c].st \notin Settled
    /\ cancelling' = TRUE
    /\ semaphore' = cancel_futures(semaphore)
    /\ UNCHANGED << json_objects, original, tasks_number, limit, coro, tasks, ret,
                    translations, calls, acquired, finished >>

\* Lines 15, 13: CancelledError is thrown into the pending llm.ainvoke; the
\* permit is released on the way out of `async with`.
CancelCall(p) ==
    /\ cancelling
    /\ coro[p].st = "inflight"
    /\ coro' = [coro EXCEPT ![p].st = "cancelled"]
    /\ semaphore' = Exit(semaphore, FALSE)
    /\ calls' = [calls EXCEPT ![p][Len(calls[p])].status = "cancelled"]
    /\ UNCHANGED << json_objects, original, tasks_number, limit, tasks, ret,
                    translations, acquired, finished, cancelling >>

\* Line 13: CancelledError is thrown into a coroutine suspended in acquire.
CancelWaiter(p) ==
    /\ cancelling
    /\ coro[p].st = "waiting"
    /\ coro' = [coro EXCEPT ![p].st = "cancelled"]
    /\ semaphore' = abandon(semaphore, p)
    /\ UNCHANGED << json_objects, original, tasks_number, limit, tasks, ret,
                    translations, calls, acquired, finished, cancelling >>

\* A coroutine that never started is cancelled before its first step; a
\* coroutine awaiting gather (lines 51, 67) is cancelled once a child has
\* finished cancelled or raised, or when its results were ready.
CancelTask(p) ==
    /\ cancelling
    /\ \/ coro[p].st = "created"
       \/ /\ coro[p].st = "gathering"
          /\ \/ Gathered(p)
             \/ \E c \in Range(tasks[p]) : coro[c].st \in {"cancelled", "raised"}
    /\ coro' = [coro EXCEPT ![p].st = "cancelled"]
    /\ UNCHANGED << json_objects, original, tasks_number, limit, semaphore, tasks,
                    ret, translations, calls, acquired, finished, cancelling >>

(***************************************************************************)
(* translate_json_object, lines 41-76.                                     *)
(***************************************************************************)
\* Lines 42-51 and 60-67: fan out over a dict or a list and await gather.
StartContainer(p) ==
    /\ ~cancelling
    /\ coro[p].fn = "translate_json_object"
    /\ coro[p].st = "created"
    /\ isinstance_dict_list(At(json_objects, p))
    /\ LET new == FirstPass(At(json_objects, p), p, 1) IN
         IF new = << >>
         THEN \* gather has nothing to wait for: the await does not suspend,
              \* the second pass and `return obj` run in the same step.
              /\ tasks' = tasks @@ (p :> << >>)
              /\ json_objects' = Put(json_objects, p,
                                     SecondPass(json_objects, At(json_objects, p),
                                                << >>, 1, 1))
              /\ coro' = [coro EXCEPT ![p].st = "done"]
              /\ ret' = ret @@ (p :> Ref(p))
              /\ finished' = [finished EXCEPT ![Parent(p)] = Append(@, p)]
                               @@ (p :> << >>)
         ELSE /\ Spawn(p, new)
              /\ UNCHANGED << json_objects, ret >>
    /\ UNCHANGED << original, tasks_number, limit, semaphore, translations,
                    calls, acquired >>
    /\ UNCHANGED cancelling

\* Lines 42, 60, 76: neither a dict nor a list, obj is returned as it is.
ReturnOther(p) ==
    /\ ~cancelling
    /\ coro[p].fn = "translate_json_object"
    /\ coro[p].st = "created"
    /\ ~isinstance_dict_list(At(json_objects, p))
    /\ coro' = [coro EXCEPT ![p].st = "done"]
    /\ ret' = ret @@ (p :> Ref(p))
    /\ Complete(p)
    /\ UNCHANGED << json_objects, original, tasks_number, limit, semaphore, tasks,
                    translations, calls, acquired >>
    /\ UNCHANGED cancelling

\* Lines 51-59, 67-76: gather returned; write the results back and return obj.
FinishContainer(p) ==
    /\ ~cancelling
    /\ coro[p].fn = "translate_json_object"
    /\ coro[p].st = "gathering"
    /\ Gathered(p)
    /\ json_objects' = Put(json_objects, p,
                           SecondPass(json_objects, At(json_objects, p),
                                      GatherResults(p), 1, 1))
    /\ coro' = [coro EXCEPT ![p].st = "done"]
    /\ ret' = ret @@ (p :> Ref(p))
    /\ Complete(p)
    /\ UNCHANGED << original, tasks_number, limit, semaphore, tasks, translations,
                    calls, acquired >>
    /\ UNCHANGED cancelling

\* Lines 51, 67: gather raises the first exception of a child; the other
\* children keep running.
RaiseContainer(p) ==
    /\ coro[p].fn = "translate_json_object"
    /\ coro[p].st = "gathering"
    /\ GatherRaised(p)
    /\ coro' = [coro EXCEPT ![p].st = "raised"]
    /\ ret' = ret @@ (p :> Exc)
    /\ UNCHANGED << json_objects, original, tasks_number, limit, semaphore, tasks,
                    translations, calls, acquired, finished >>
    /\ UNCHANGED cancelling

(***************************************************************************)
(* translate, lines 12-22.                                                 *)
(***************************************************************************)
InvokeTwice(p) ==
    /\ acquired' = acquired \cup {p}
    /\ coro' = [coro EXCEPT ![p].st = "inflight"]
    /\ calls' = calls @@ (p :> << [text |-> coro[p].text, status |-> "returned"],
                                  [text |-> coro[p].text, status |-> "inflight"] >>)

\* Lines 14-15: acquire has returned; llm.ainvoke is started.
Invoke(p) ==
    /\ acquired' = acquired \cup {p}
    /\ coro' = [coro EXCEPT ![p].st = "inflight"]
    /\ calls' = IF p \in DOMAIN calls
                THEN [calls EXCEPT ![p] =
                        Append(@, [text |-> coro[p].text, status |-> "inflight"])]
                ELSE calls @@ (p :> << [text |-> coro[p].text,
                                        status |-> "inflight"] >>)

\* Line 13: the coroutine reaches `async with semaphore`.
TranslateEnter(p) ==
    /\ ~cancelling
    /\ coro[p].fn = "translate"
    /\ coro[p].st = "created"
    /\ IF locked(semaphore)
       THEN /\ semaphore' = enqueue(semaphore, p)
            /\ coro' = [coro EXCEPT ![p].st = "waiting"]
            /\ UNCHANGED << acquired, calls >>
       ELSE /\ semaphore' = acquire(semaphore)
            /\ Invoke(p)
    /\ UNCHANGED << json_objects, original, tasks_number, limit, tasks, ret,
                    translations, finished >>
    /\ UNCHANGED cancelling

\* Line 13: a waiter that a release has woken resumes inside acquire and
\* goes on to its call; its permit was taken when it was woken.
TranslateWake(p) ==
    /\ ~cancelling
    /\ coro[p].fn = "translate"
    /\ coro[p].st = "waiting"
    /\ p \in Woken(semaphore)
    /\ semaphore' = resume(semaphore, p)
    /\ Invoke(p)
    /\ UNCHANGED << json_objects, original, tasks_number, limit, tasks, ret,
                    translations, finished >>
    /\ UNCHANGED cancelling

\* Lines 15-22: llm.ainvoke answers; the permit is released on the way out.
PortReturn(p) ==
    /\ ~cancelling
    /\ coro[p].fn = "translate"
    /\ coro[p].st = "inflight"
    /\ coro' = [coro EXCEPT ![p].st = "done"]
    /\ ret' = ret @@ (p :> Msg(Port(coro[p].text)))
    /\ semaphore' = Exit(semaphore, TRUE)
    /\ calls' = [calls EXCEPT ![p][Len(calls[p])].status = "returned"]
    /\ Complete(p)
    /\ UNCHANGED << json_objects, original, tasks_number, limit, tasks,
                    translations, acquired >>
    /\ UNCHANGED cancelling

\* Lines 13-15: llm.ainvoke raises; the permit is released on the way out.
PortFail(p) ==
    /\ ~cancelling
    /\ coro[p].fn = "translate"
    /\ coro[p].st = "inflight"
    /\ coro' = [coro EXCEPT ![p].st = "raised"]
    /\ ret' = ret @@ (p :> Exc)
    /\ semaphore' = Exit(semaphore, FALSE)
    /\ calls' = [calls EXCEPT ![p][Len(calls[p])].status = "failed"]
    /\ UNCHANGED << json_objects, original, tasks_number, limit, tasks,
                    translations, acquired, finished >>
    /\ UNCHANGED cancelling

Next ==
    \/ MainStart
    \/ MainReturn
    \/ MainRaise
    \/ CancelAllTasks
    \/ \E p \in DOMAIN coro : CancelCall(p)
    \/ \E p \in DOMAIN coro : CancelWaiter(p)
    \/ \E p \in DOMAIN coro : CancelTask(p)
    \/ \E p \in DOMAIN coro : StartContainer(p)
    \/ \E p \in DOMAIN coro : ReturnOther(p)
    \/ \E p \in DOMAIN coro : FinishContainer(p)
    \/ \E p \in DOMAIN coro : RaiseContainer(p)
    \/ \E p \in DOMAIN coro : TranslateEnter(p)
    \/ \E p \in DOMAIN coro : TranslateWake(p)
    \/ \E p \in DOMAIN coro : PortReturn(p)
    \/ \E p \in DOMAIN coro : PortFail(p)

Spec == Init /\ [][Next]_vars

\* The event loop keeps running whatever is ready (a coroutine to resume, a
\* waiter to wake) and every llm.ainvoke call answers or fails in the end.
FairSpec == Spec /\ WF_vars(Next)

(***************************************************************************)
(* Vocabulary of the properties.                                           *)
(***************************************************************************)
MainSt == coro[Main].st

\* The llm.ainvoke calls in a given status, one element per call.
CallsIn(status) ==
    { << p, n >> \in UNION { {p} \X DOMAIN calls[p] : p \in DOMAIN calls } :
        calls[p][n].status = status }

InFlight == Cardinality(CallsIn("inflight"))

\* The value the specification asks for: every string replaced by the
\* port's answer, everything else as it was.
RECURSIVE Translated(_)
Translated(value) ==
    IF IsStr(value) THEN Str(Port(value.v))
    ELSE IF value.k = "dict"
    THEN Dict([j \in DOMAIN value.v |->
                 Entry(value.v[j].key, Translated(value.v[j].val))])
    ELSE IF value.k = "list"
    THEN List([j \in DOMAIN value.v |-> Translated(value.v[j])])
    ELSE value

RECURSIVE SameShape(_, _)
SameShape(a, b) ==
    /\ a.k = b.k
    /\ IsContainer(b) =>
         /\ Len(a.v) = Len(b.v)
         /\ \A j \in DOMAIN b.v :
              /\ b.k = "dict" => a.v[j].key = b.v[j].key
              /\ SameShape(Child(a, j), Child(b, j))

\* Every position of a value, as a path from its root; the positions of the
\* catalog's records are computed once.
RECURSIVE PathsOf(_)
PathsOf(value) ==
    { << >> } \cup
    UNION { { << j >> \o q : q \in PathsOf(Child(value, j)) } : j \in 1..Size(value) }

CatalogPaths == [c \in Range(Catalog) |-> PathsOf(c)]

Paths(value) ==
    IF value \in DOMAIN CatalogPaths THEN CatalogPaths[value] ELSE PathsOf(value)

ScalarAt(value, q) == AtValue(value, q).k = "scalar"

\* The positions of the non-string scalars and of the strings of a record.
CatalogScalars ==
    [c \in Range(Catalog) |-> { q \in PathsOf(c) : ScalarAt(c, q) }]
CatalogStrings ==
    [c \in Range(Catalog) |-> { q \in PathsOf(c) : IsStr(AtValue(c, q)) }]
ScalarPaths(value) == CatalogScalars[value]
StringPaths(value) == CatalogStrings[value]
NoString(value) == \A q \in Paths(value) : ~IsStr(AtValue(value, q))

Under(i) == { p \in DOMAIN coro : p # Main /\ Head(p) = i }
Selected == IF Main \in DOMAIN tasks THEN 1..Len(tasks[Main]) ELSE {}

\* C1: the number of llm.ainvoke calls in flight never exceeds the number
\* of permits the semaphore was built with, whatever records and nesting
\* levels the calls come from.
C1_ConcurrencyCap == InFlight <= tasks_number

C1_Witness ==
    /\ InFlight = tasks_number
    /\ \E a, b \in CallsIn("inflight") : Len(a[1]) # Len(b[1])
    /\ \E p \in DOMAIN coro :
         /\ coro[p].st = "waiting"
         /\ \E a \in CallsIn("inflight") : Head(a[1]) # Head(p)

\* C2: once a container's coroutine has returned, each key or index holds
\* the translation of the input value of that same key or index, whatever
\* order its children completed in.
C2_Positional ==
    \A p \in DOMAIN coro :
      (p # Main /\ coro[p].st = "done" /\ IsContainer(At(original, p))) =>
        LET in == At(original, p)
            out == At(json_objects, p) IN
          /\ Size(out) = Size(in)
          /\ \A j \in 1..Size(in) :
               /\ in.k = "dict" => out.v[j].key = in.v[j].key
               /\ Child(out, j) = Translated(Child(in, j))

C2_Witness ==
    \E p \in DOMAIN coro :
      /\ p # Main
      /\ coro[p].st = "done"
      /\ p \in DOMAIN tasks
      /\ Len(tasks[p]) >= 2
      /\ finished[p] # tasks[p]

\* C3: every returned translation has the shape of its input record: same
\* variant at every position, same keys in the same order, same lengths.
C3_ShapePreserved ==
    MainSt = "done" =>
      \A i \in DOMAIN translations : SameShape(translations[i], original[i])

C3_Witness ==
    /\ MainSt = "done"
    /\ \E i \in DOMAIN translations :
         /\ original[i].k = "dict"
         /\ \E j, m, n \in 1..Size(original[i]) :
              /\ IsStr(Child(original[i], j))
              /\ IsContainer(Child(original[i], m))
              /\ Child(original[i], n).k = "scalar"
         /\ translations[i] # original[i]

\* C4: main's result is position-stable: result[i] is what
\* translate_json_object yields for records[i], whatever order the records
\* finished in.
C4_PositionStable ==
    MainSt = "done" =>
      \A i \in DOMAIN translations :
        translations[i] = translate_json_object(original[i])

C4_Witness ==
    /\ MainSt = "done"
    /\ Len(translations) = 2
    /\ finished[Main] = << << 2 >>, << 1 >> >>
    /\ original[1].k # original[2].k
    /\ \A i \in 1..2 : translations[i] # original[i]

\* C5: with a limit L >= 0 and n records, exactly the first min(L, n)
\* records are translated and returned, in input order; no coroutine and no
\* llm.ainvoke call exists for the others, which stay as loaded.
C5_RecordLimit ==
    limit >= 0 =>
      LET m == Min(limit, Len(original)) IN
        /\ \A p \in DOMAIN coro : p # Main => Head(p) <= m
        /\ \A p \in DOMAIN calls : Head(p) <= m
        /\ \A i \in DOMAIN original : i > m => json_objects[i] = original[i]
        /\ MainSt = "done" =>
             /\ Len(translations) = m
             /\ \A i \in 1..m :
                  translations[i] = translate_json_object(original[i])

C5_Witness ==
    /\ MainSt = "done"
    /\ limit = 1
    /\ Len(original) = 2
    /\ ~NoString(original[1])
    /\ ~NoString(original[2])
    /\ IsContainer(original[2])
    /\ translations[1] # original[1]

\* C6: once an llm.ainvoke call has failed, main never returns a result:
\* the run can only end with main raising, and nothing is returned for any
\* record.
C6_FailFast ==
    CallsIn("failed") # {} =>
      /\ MainSt # "done"
      /\ Len(translations) = 0
      /\ MainSt = "raised" \/ ENABLED Next

C6_Witness ==
    /\ MainSt = "raised"
    /\ Len(translations) = 0
    /\ \E i, j \in Selected :
         /\ coro[<< i >>].st = "done"
         /\ \E p \in DOMAIN calls : Head(p) = i
         /\ json_objects[i] = Translated(original[i])
         /\ coro[<< j >>].st = "raised"

\* C7 as stated: in every state the free permits plus the calls in flight
\* are the permits the semaphore was built with.
C7_PermitsConserved ==
    /\ semaphore.value >= 0
    /\ semaphore.value + InFlight = tasks_number

\* C7 as amended: a permit is released on every way out of the call, and a
\* released permit goes straight to the first waiting leaf, if there is one,
\* before that leaf has started its call. In every state the free permits,
\* the calls in flight and the waiting leaves that were handed a permit add
\* up to the permits the semaphore was built with, also after a call failed;
\* a leaf that waits without a permit has a call in flight or a leaf with a
\* permit ahead of it.
C7_PermitsHandedOver ==
    /\ semaphore.value >= 0
    /\ semaphore.value + InFlight + Cardinality(Woken(semaphore)) = tasks_number
    /\ Pending(semaphore) # {} => (InFlight > 0 \/ Woken(semaphore) # {})
    /\ \A n \in DOMAIN semaphore.waiters :
         coro[semaphore.waiters[n].path].st = "waiting"
    /\ \A p \in DOMAIN coro :
         coro[p].st = "waiting" =>
           \E n \in DOMAIN semaphore.waiters : semaphore.waiters[n].path = p

C7_Witness ==
    /\ tasks_number = 1
    /\ semaphore.value = 0
    /\ InFlight = 0
    /\ \E p \in Woken(semaphore) :
         \E q \in DOMAIN calls :
           /\ calls[q][Len(calls[q])].status = "failed"
           /\ Parent(q) = Parent(p)
    /\ Pending(semaphore) # {}

\* C8: a non-string scalar keeps its value at its position, and it gets no
\* coroutine of its own, no llm.ainvoke call and no permit.
C8_ScalarsUntouched ==
    \A i \in DOMAIN original :
      \A q \in ScalarPaths(original[i]) :
        /\ At(json_objects, << i >> \o q) = AtValue(original[i], q)
        /\ q # << >> => (<< i >> \o q) \notin DOMAIN coro
        /\ (<< i >> \o q) \notin DOMAIN calls
        /\ (<< i >> \o q) \notin acquired
        /\ (MainSt = "done" /\ i \in DOMAIN translations) =>
             AtValue(translations[i], q) = AtValue(original[i], q)

C8_Witness ==
    /\ MainSt = "done"
    /\ \E i \in DOMAIN translations :
         /\ \E q \in Paths(original[i]) : q # << >> /\ ScalarAt(original[i], q)
         /\ translations[i] # original[i]
    /\ \E i \in DOMAIN translations : original[i].k = "scalar"

\* C9: a record without any string (an empty dict, an empty list, a record
\* of non-string scalars only) comes out as it went in, with no
\* llm.ainvoke call and no permit taken for it; a run over such records
\* only cannot fail and ends with main returning.
C9_Degenerate ==
    /\ \A i \in DOMAIN original :
         NoString(original[i]) =>
           /\ json_objects[i] = original[i]
           /\ \A p \in Under(i) : p \notin DOMAIN calls /\ p \notin acquired
           /\ (MainSt = "done" /\ i \in DOMAIN translations) =>
                translations[i] = original[i]
    /\ (\A i \in DOMAIN original : NoString(original[i])) =>
         /\ MainSt # "raised"
         /\ semaphore = [value |-> tasks_number, waiters |-> << >>]
         /\ ~ENABLED Next =>
              /\ MainSt = "done"
              /\ translations =
                   [i \in 1..effective_limit(limit, Len(original)) |-> original[i]]

C9_Witness ==
    /\ MainSt = "done"
    /\ Len(translations) = 2
    /\ translations[1].k \in {"dict", "list"}
    /\ Size(translations[1]) = 0
    /\ Size(translations[2]) = 2
    /\ NoString(translations[2])
    /\ calls = << >>
    /\ acquired = {}

\* C10: a record that is itself a string is translated: a permit is taken,
\* llm.ainvoke is called once on its text and the answer is returned.
C10_TopLevelString ==
    MainSt = "done" =>
      \A i \in DOMAIN translations :
        IsStr(original[i]) =>
          /\ translations[i] = Str(Port(original[i].v))
          /\ << i >> \in acquired
          /\ << i >> \in DOMAIN calls
          /\ Len(calls[<< i >>]) = 1
          /\ calls[<< i >>][1].text = original[i].v

\* C11: with any negative limit, not only -1, every record of the batch is
\* translated and returned.
C11_NegativeLimit ==
    (limit < 0 /\ MainSt = "done") =>
      /\ Len(translations) = Len(original)
      /\ \A i \in DOMAIN original :
           translations[i] = translate_json_object(original[i])

\* C12 as stated: whether the run succeeded or failed, the input records
\* still hold their original text.
C12_InputUnmodified ==
    MainSt \in {"done", "raised"} => json_objects = original

\* C12 as amended: the input is updated in place and is what is returned. A
\* string leaf of an input record holds its original text until the
\* coroutine of its enclosing container has returned and its translated text
\* from then on, also when the run fails later; a returned record is the
\* input record itself.
C12_InPlace ==
    /\ \A i \in DOMAIN original :
         \A q \in StringPaths(original[i]) :
           LET p == << i >> \o q
               now == At(json_objects, p)
               written == /\ q # << >>
                          /\ Parent(p) \in DOMAIN coro
                          /\ coro[Parent(p)].st = "done" IN
             /\ IsStr(now)
             /\ now.v = IF written THEN Port(AtValue(original[i], q).v)
                        ELSE AtValue(original[i], q).v
    /\ MainSt = "done" =>
         \A i \in DOMAIN translations : translations[i] = json_objects[i]

C12_Witness ==
    /\ MainSt = "raised"
    /\ \E i \in DOMAIN original :
         /\ json_objects[i] # original[i]
         /\ json_objects[i] # Translated(original[i])

\* The coroutines that hold a permit.
Holders == { p \in DOMAIN coro : coro[p].st = "inflight" }

\* C13: the semaphore is touched only by the translate coroutine of a string
\* leaf: a coroutine of a dict or list never waits for or holds a permit,
\* also while it awaits its children, and the permits taken are exactly
\* those of the coroutines whose llm.ainvoke call is in flight.
C13_GateOnlyAtLeaves ==
    /\ acquired \subseteq DOMAIN coro
    /\ \A p \in DOMAIN coro :
         (coro[p].st \in {"waiting", "inflight"} \/ p \in acquired) =>
           /\ coro[p].fn = "translate"
           /\ IsStr(At(original, p))
           /\ p \notin DOMAIN tasks
    /\ \A p \in DOMAIN coro :
         coro[p].fn # "translate" => p \notin acquired
    /\ \A p \in DOMAIN coro :
         coro[p].st = "inflight" <=>
           /\ p \in DOMAIN calls
           /\ calls[p][Len(calls[p])].status = "inflight"
    /\ \A n \in DOMAIN semaphore.waiters :
         coro[semaphore.waiters[n].path].fn = "translate"
    /\ tasks_number - semaphore.value
         = Cardinality(Holders) + Cardinality(Woken(semaphore))

C13_Witness ==
    /\ semaphore.value = 0
    /\ \E p \in DOMAIN coro :
         /\ Len(p) >= 2
         /\ coro[p].st = "gathering"
         /\ \E c \in Range(tasks[p]) : c \in Holders
         /\ coro[Parent(p)].st = "gathering"
         /\ \E d \in Range(tasks[Parent(p)]) : coro[d].st = "waiting"

\* C14: with at least one permit and a port that always answers or fails,
\* every run ends: main returns or raises, whatever the depth and width of
\* the records and however the coroutines interleave.
C14_Terminates == <>(MainSt \in {"done", "raised"})

C14_Witness ==
    /\ MainSt = "done"
    /\ tasks_number = 1
    /\ Len(translations) = 2
    /\ \E p, q \in acquired : Len(p) # Len(q) /\ Head(p) = Head(q)
    /\ \E p, q \in acquired : Head(p) # Head(q)

\* C15: fan-in. A coroutine of a dict or list has returned only if every
\* coroutine it gathered has returned, and main has returned only if the
\* llm.ainvoke call of every string leaf below every selected record has
\* returned.
C15_FanIn ==
    /\ \A p \in DOMAIN coro :
         (coro[p].st = "done" /\ p \in DOMAIN tasks) =>
           \A c \in Range(tasks[p]) : coro[c].st = "done"
    /\ MainSt = "done" =>
         /\ CallsIn("inflight") = {}
         /\ \A i \in DOMAIN translations :
              \A q \in StringPaths(original[i]) :
                q # << >> =>
                  /\ (<< i >> \o q) \in DOMAIN calls
                  /\ calls[<< i >> \o q][Len(calls[<< i >> \o q])].status
                       = "returned"

C15_Witness ==
    /\ MainSt = "done"
    /\ \E p \in DOMAIN coro :
         /\ Len(p) >= 2
         /\ p \in DOMAIN tasks
         /\ tasks[p] # << >>
         /\ finished[Parent(p)] # tasks[Parent(p)]
    /\ Cardinality(CallsIn("returned")) >= 2

\* The string leaves of record i that lie below a dict or list.
NestedStrings(i) ==
    { << i >> \o q : q \in StringPaths(original[i]) \ { << >> } }

\* C16: llm.ainvoke is called at most once per coroutine, only for string
\* leaves nested in a dict or list and with the text the leaf was loaded
\* with; when main has returned it has been called exactly once for each
\* such leaf of each selected record and for nothing else.
C16_ExactlyOnce ==
    /\ \A p \in DOMAIN calls :
         /\ Len(calls[p]) = 1
         /\ p \in NestedStrings(Head(p))
         /\ calls[p][1].text = At(original, p).v
    /\ MainSt = "done" =>
         DOMAIN calls = UNION { NestedStrings(i) : i \in DOMAIN translations }

C16_Witness ==
    /\ MainSt = "done"
    /\ Cardinality(DOMAIN calls) >= 3
    /\ \E p, q \in DOMAIN calls : calls[p][1].text = calls[q][1].text /\ p # q
    /\ \E p \in DOMAIN calls :
         At(json_objects, p).v # calls[p][1].text

\* C17: the coroutines a dict or list hands to gather are those of its str
\* and dict/list children, in the iteration order of the container; the
\* order in which they complete is free.
C17_LaunchOrder ==
    \A p \in DOMAIN tasks :
      p # Main =>
        /\ \A m, n \in DOMAIN tasks[p] :
             m < n => tasks[p][m][Len(p) + 1] < tasks[p][n][Len(p) + 1]
        /\ Range(tasks[p]) =
             { Append(p, j) : j \in { x \in 1..Size(At(original, p)) :
                 LET value == Child(At(original, p), x) IN
                   IsStr(value) \/ IsContainer(value) } }

C17_Witness ==
    \E p \in DOMAIN tasks :
      /\ p # Main
      /\ Len(tasks[p]) = 2
      /\ coro[p].st = "done"
      /\ finished[p] = << tasks[p][2], tasks[p][1] >>

====
